---- MODULE Spec2Model ----
(***************************************************************************)
(* The notebook sparkml_serving_emr_mleap_abalone.ipynb as a state machine. *)
(* One action per code cell, taken in document order; a call that raises    *)
(* ends the run.  The host's /tmp files, the S3 bucket and the SageMaker    *)
(* account outlive a run; the kernel's variables do not.                    *)
(***************************************************************************)
EXTENDS Integers, Sequences, FiniteSets, TLC

(* ------------------------------ bounds -------------------------------- *)

\* rows of abalone.csv
NumRows == 2

\* times the notebook is run on the same host and account
MaxRuns == 2

\* distinct values gmtime() can show, to the second
MaxClock == 2

(* --------------------------- string helpers --------------------------- *)

\* The element of a one-element set. TLC evaluates the argument of an
\* operator and the body of a LET each time it is mentioned, and a bound
\* variable once: The({e(x) : x \in {d}}) is LET x == d IN e(x), d evaluated
\* once.
The(set) == CHOOSE r \in set : TRUE

\* A string whose characters matter is a sequence of one-character strings.
Digits == <<"0", "1", "2", "3", "4", "5", "6", "7", "8", "9">>

IsDigit(c) == \E i \in 1..10 : Digits[i] = c

DigitVal(c) == (CHOOSE i \in 1..10 : Digits[i] = c) - 1

RECURSIVE Pow10(_)
Pow10(n) == IF n = 0 THEN 1 ELSE 10 * Pow10(n - 1)

\* str.split(sep): the pieces of s between the separators
RECURSIVE SplitFrom(_, _, _)
SplitFrom(s, sep, cur) ==
    IF s = <<>> THEN <<cur>>
    ELSE IF Head(s) = sep THEN <<cur>> \o SplitFrom(Tail(s), sep, <<>>)
    ELSE SplitFrom(Tail(s), sep, Append(cur, Head(s)))

Split(s, sep) == The({SplitFrom(str, sep, <<>>) : str \in {s}})

RECURSIVE DigitsValue(_)
DigitsValue(s) ==
    IF s = <<>> THEN 0 ELSE 10 * DigitsValue(SubSeq(s, 1, Len(s) - 1)) + DigitVal(s[Len(s)])

AllDigits(s) == s # <<>> /\ \A i \in 1..Len(s) : IsDigit(s[i])

\* decimal places kept of a double: 0.1725 has four
DecimalPlaces == 4

\* a decimal literal "i.f" with at most DecimalPlaces places
IsDecimal(s) ==
    \E p \in {Split(s, ".")} :
        /\ Len(p) \in {1, 2}
        /\ AllDigits(p[1])
        /\ Len(p) = 2 => AllDigits(p[2]) /\ Len(p[2]) <= DecimalPlaces

\* the double a decimal literal denotes, in units of 10^-DecimalPlaces
ParseDouble(s) ==
    The({ DigitsValue(p[1]) * Pow10(DecimalPlaces)
            + (IF Len(p) = 2
               THEN DigitsValue(p[2]) * Pow10(DecimalPlaces - Len(p[2])) ELSE 0)
          : p \in {Split(s, ".")} })


\* repr of a double, as json.dumps writes it: trailing zeros dropped, one kept
RECURSIVE StripZeros(_)
StripZeros(s) ==
    IF Len(s) > 1 /\ s[Len(s)] = "0" THEN StripZeros(SubSeq(s, 1, Len(s) - 1)) ELSE s

RECURSIVE NatDigits(_)
NatDigits(n) ==
    IF n < 10 THEN <<Digits[n + 1]>> ELSE Append(NatDigits(n \div 10), Digits[(n % 10) + 1])

RECURSIVE PadLeft(_, _)
PadLeft(s, n) == IF Len(s) >= n THEN s ELSE PadLeft(<<"0">> \o s, n)

FormatDouble(v) ==
    NatDigits(v \div Pow10(DecimalPlaces)) \o <<".">>
      \o StripZeros(PadLeft(NatDigits(v % Pow10(DecimalPlaces)), DecimalPlaces))

(* ---------------------- the dataset and the pipeline ------------------ *)

Range(seq) == {seq[i] : i \in 1..Len(seq)}

Field(n, t) == [name |-> n, dataType |-> t]

\* schema, the StructType abalone.csv is read with
DatasetSchema ==
    << Field("sex", "StringType"), Field("length", "DoubleType"),
       Field("diameter", "DoubleType"), Field("height", "DoubleType"),
       Field("whole_weight", "DoubleType"), Field("shucked_weight", "DoubleType"),
       Field("viscera_weight", "DoubleType"), Field("shell_weight", "DoubleType"),
       Field("rings", "DoubleType") >>

FieldNames(fields) == [i \in 1..Len(fields) |-> fields[i].name]

\* a pipeline stage: the columns it reads, its label column if it has one,
\* and the columns it adds
Stage(kind, ins, label, outs) ==
    [kind |-> kind, inputCols |-> ins, labelCol |-> label, outputCols |-> outs]

SexIndexer == Stage("StringIndexer", <<"sex">>, <<>>, <<"indexed_sex">>)

SexEncoder == Stage("OneHotEncoderEstimator", <<"indexed_sex">>, <<>>, <<"sex_vec">>)

Assembler ==
    Stage("VectorAssembler",
          << "sex_vec", "length", "diameter", "height", "whole_weight",
             "shucked_weight", "viscera_weight", "shell_weight" >>,
          <<>>, <<"features">>)

\* rf; the column it adds has the default name of predictionCol
Rf == Stage("RandomForestRegressor", <<"features">>, <<"rings">>, <<"prediction">>)

\* the encoder put before the indexer
PipelineStagesEncoderFirst == << SexEncoder, SexIndexer, Assembler, Rf >>

\* Pipeline(stages=[sex_indexer, sex_encoder, assembler, rf])
PipelineStages == << SexIndexer, SexEncoder, Assembler, Rf >>

\* the columns of a frame with columns cols after the first k stages
RECURSIVE ColumnsAfter(_, _, _)
ColumnsAfter(stages, cols, k) ==
    IF k = 0 THEN cols ELSE ColumnsAfter(stages, cols, k - 1) \o stages[k].outputCols

\* Spark's check of a stage against the frame it is given: the columns it
\* reads are there, the columns it adds are not
StageFits(stages, cols, k) ==
    \E before \in {Range(ColumnsAfter(stages, cols, k - 1))} :
        /\ Range(stages[k].inputCols) \cup Range(stages[k].labelCol) \subseteq before
        /\ Range(stages[k].outputCols) \cap before = {}

\* pipeline.fit(df) goes through: each stage fits the frame the earlier left
PipelineFits(stages, cols) == \A k \in 1..Len(stages) : StageFits(stages, cols, k)

(* ------------------------- schemas and payloads ----------------------- *)

Col(n, t) == [name |-> n, type |-> t]

\* the schema dict with the label among its input columns
EnvSchemaWithRings ==
    [input  |-> << Col("sex", "string"), Col("length", "double"),
                   Col("diameter", "double"), Col("height", "double"),
                   Col("whole_weight", "double"), Col("shucked_weight", "double"),
                   Col("viscera_weight", "double"), Col("shell_weight", "double"),
                   Col("rings", "double") >>,
     output |-> Col("prediction", "double")]

\* schema, the dict given to the model as SAGEMAKER_SPARKML_SCHEMA
EnvSchema ==
    [input  |-> << Col("sex", "string"), Col("length", "double"),
                   Col("diameter", "double"), Col("height", "double"),
                   Col("whole_weight", "double"), Col("shucked_weight", "double"),
                   Col("viscera_weight", "double"), Col("shell_weight", "double") >>,
     output |-> Col("prediction", "double")]

\* the schema the third payload carries: length and sex change places
RequestSchema ==
    [input  |-> << Col("length", "double"), Col("sex", "string"),
                   Col("diameter", "double"), Col("height", "double"),
                   Col("whole_weight", "double"), Col("shucked_weight", "double"),
                   Col("viscera_weight", "double"), Col("shell_weight", "double") >>,
     output |-> Col("prediction", "double")]

NoSchema == [input |-> <<>>, output |-> Col("", "")]

\* Python values of a payload's data list: a str, or a float in 10^-4 units
PyStr(s) == [py |-> "str", s |-> s, d |-> 0]

PyFloat(d) == [py |-> "float", s |-> <<>>, d |-> d]

\* payload of the CSV cell, a str
CsvPayload ==
    << "F", ",", "0", ".", "5", "1", "5", ",", "0", ".", "4", "2", "5", ",",
       "0", ".", "1", "4", ",", "0", ".", "7", "6", "6", ",",
       "0", ".", "3", "0", "4", ",", "0", ".", "1", "7", "2", "5", ",",
       "0", ".", "2", "5", "5" >>

\* the JSON payload with diameter and height exchanged
JsonPayloadExchanged ==
    [hasSchema |-> FALSE, schema |-> NoSchema,
     data |-> << PyStr(<<"F">>), PyFloat(5150), PyFloat(1400), PyFloat(4250),
                 PyFloat(7660), PyFloat(3040), PyFloat(1725), PyFloat(2550) >>]

\* payload of the JSON cell, a dict with data only
JsonPayload ==
    [hasSchema |-> FALSE, schema |-> NoSchema,
     data |-> << PyStr(<<"F">>), PyFloat(5150), PyFloat(4250), PyFloat(1400),
                 PyFloat(7660), PyFloat(3040), PyFloat(1725), PyFloat(2550) >>]

\* payload of the last prediction cell, a dict with schema and data
SchemaPayload ==
    [hasSchema |-> TRUE, schema |-> RequestSchema,
     data |-> << PyFloat(5150), PyStr(<<"F">>), PyFloat(4250), PyFloat(1400),
                 PyFloat(7660), PyFloat(3040), PyFloat(1725), PyFloat(2550) >>]

(* ------------------------------ JSON text ----------------------------- *)

\* JSON text is a sequence of tokens: punctuation, string, number literal
P(c) == [t |-> "p", v |-> <<c>>]

S(s) == [t |-> "s", v |-> s]

N(s) == [t |-> "n", v |-> s]

DumpsCol(c) ==
    << P("{"), S(<<"name">>), S(<<c.name>>), S(<<"type">>), S(<<c.type>>), P("}") >>

RECURSIVE DumpsCols(_)
DumpsCols(cs) == IF cs = <<>> THEN <<>> ELSE DumpsCol(Head(cs)) \o DumpsCols(Tail(cs))

\* json.dumps(schema)
DumpsSchema(sch) ==
    << P("{"), S(<<"input">>), P("[") >> \o DumpsCols(sch.input)
      \o << P("]"), S(<<"output">>) >> \o DumpsCol(sch.output) \o << P("}") >>

DumpsValue(x) == IF x.py = "str" THEN S(x.s) ELSE N(FormatDouble(x.d))

\* JSONSerializer.serialize(payload): json.dumps of the dict
DumpsPayload(p) ==
    << P("{") >>
      \o (IF p.hasSchema THEN << S(<<"schema">>) >> \o DumpsSchema(p.schema) ELSE <<>>)
      \o << S(<<"data">>), P("[") >>
      \o [i \in 1..Len(p.data) |-> DumpsValue(p.data[i])]
      \o << P("]"), P("}") >>

\* CSVSerializer.serialize(payload): a str goes out as it is
CsvSerialize(p) == p

\* first index >= from at which tok stands, 0 when there is none
IndexOf(toks, tok, from) ==
    IF \E i \in from..Len(toks) : toks[i] = tok
    THEN CHOOSE i \in from..Len(toks) :
            toks[i] = tok /\ \A j \in from..(i - 1) : toks[j] # tok
    ELSE 0

LoadsCol(toks, i) == Col(toks[i + 2].v[1], toks[i + 4].v[1])

\* the schema a JSON text starting at toks[at] = "{" denotes
LoadsSchema(toks, at) ==
    LET close == IndexOf(toks, P("]"), at)
        n == (close - (at + 3)) \div 6
    IN  [input  |-> [k \in 1..n |-> LoadsCol(toks, at + 3 + 6 * (k - 1))],
         output |-> LoadsCol(toks, close + 2)]


(* ------------------------ the serving container ----------------------- *)

Value(n, t, str, dbl) == [name |-> n, type |-> t, s |-> str, d |-> dbl]

\* a CSV field read as a column of the schema
CsvConforms(f, col) == col.type = "string" \/ (col.type = "double" /\ IsDecimal(f))

CsvValue(f, col) ==
    IF col.type = "double" THEN Value(col.name, col.type, <<>>, ParseDouble(f))
    ELSE Value(col.name, col.type, f, 0)

\* a JSON value read as a column of the schema
JsonConforms(tok, col) ==
    \/ col.type = "string" /\ tok.t = "s"
    \/ col.type = "double" /\ tok.t = "n" /\ IsDecimal(tok.v)

JsonValue(tok, col) ==
    IF col.type = "double" THEN Value(col.name, col.type, <<>>, ParseDouble(tok.v))
    ELSE Value(col.name, col.type, tok.v, 0)

BadRequest == [ok |-> FALSE, from |-> "none", schema |-> NoSchema, record |-> {}]

\* text/csv: the fields are read with the schema of the environment variable
ReadCsv(sch, f) ==
    IF Len(f) = Len(sch.input) /\ \A i \in 1..Len(f) : CsvConforms(f[i], sch.input[i])
    THEN [ok |-> TRUE, from |-> "env", schema |-> sch,
          record |-> {CsvValue(f[i], sch.input[i]) : i \in 1..Len(f)}]
    ELSE BadRequest

ServeCsv(env, body) ==
    The({ReadCsv(sch, f) : sch \in {LoadsSchema(env, 1)}, f \in {Split(body, ",")}})

\* the payload carries a schema of its own
HasOwnSchema(body) == Len(body) >= 2 /\ body[2] = S(<<"schema">>)

\* the container ignores a schema in the payload
UsesOwnSchemaNever(body) == FALSE

\* a schema in the payload takes precedence over the environment variable's
UsesOwnSchema(body) == HasOwnSchema(body)

\* application/json: the data are read with the schema that applies
\* the values of the "data" list of a JSON text, <<>> when it has none
LoadsData(toks) ==
    The({ IF at = 0 THEN <<>> ELSE [i \in 1..(Len(toks) - 2 - (at + 1)) |-> toks[at + 1 + i]]
          : at \in {IndexOf(toks, S(<<"data">>), 2)} })

ReadJson(from, sch, v) ==
    IF v # <<>> /\ Len(v) = Len(sch.input)
       /\ \A i \in 1..Len(v) : JsonConforms(v[i], sch.input[i])
    THEN [ok |-> TRUE, from |-> from, schema |-> sch,
          record |-> {JsonValue(v[i], sch.input[i]) : i \in 1..Len(v)}]
    ELSE BadRequest

ServeJson(env, body) ==
    IF UsesOwnSchema(body)
    THEN The({ReadJson("request", sch, v) : sch \in {LoadsSchema(body, 3)}, v \in {LoadsData(body)}})
    ELSE The({ReadJson("env", sch, v) : sch \in {LoadsSchema(env, 1)}, v \in {LoadsData(body)}})

Serve(env, contentType, body) ==
    IF contentType = "text/csv" THEN ServeCsv(env, body) ELSE ServeJson(env, body)

(* ------------------------------ S3 names ------------------------------ *)

\* a path or URI is a sequence of segments and "/" separators
OutputBucket == <<"<your-output-bucket-name>">>

KeyPrefix == <<"emr", "/", "abalone", "/", "mleap">>

ArchiveName == <<"model.tar.gz">>

\* plain concatenation instead of os.path.join
PathJoinNoSeparator(a, b) == a \o b

\* os.path.join(a, b)
PathJoin(a, b) ==
    IF b # <<>> /\ Head(b) = "/" THEN b
    ELSE IF a = <<>> \/ a[Len(a)] = "/" THEN a \o b
    ELSE a \o <<"/">> \o b

\* "s3://{}/{}/{}".format(bucket, prefix, name)
S3Format(bucket, prefix, name) ==
    <<"s3:", "/", "/">> \o bucket \o <<"/">> \o prefix \o <<"/">> \o name

\* the bucket and the key an s3:// URI names
ParseS3Uri(uri) ==
    LET rest == SubSeq(uri, 4, Len(uri))
        cut == IndexOf(rest, "/", 1)
    IN  [bucket |-> SubSeq(rest, 1, cut - 1), key |-> SubSeq(rest, cut + 1, Len(rest))]


(* --------------------------- local artifacts -------------------------- *)

\* A file or directory of the host: whether it exists, and the entries
\* (path, content) of the archive or directory tree.
NoFile == [exists |-> FALSE, entries |-> {}]

File(es) == [exists |-> TRUE, entries |-> es]

Entry(p, d) == [path |-> p, data |-> d]

\* directory of one pipeline stage inside the bundle, named by the stage's uid
StageDir(uid) == ToString(uid)

\* what serializeToBundle writes into the zip: the manifest and the model
\* directory of the fitted pipeline
BundleOf(m) ==
    { Entry(<<"bundle.json">>, m.uid),
      Entry(<<"root", "model.json">>, m.uid),
      Entry(<<"root", StageDir(m.uid), "model.json">>, m.uid) }

ModelDir == <<"tmp", "model">>

IsPrefix(a, b) == Len(a) <= Len(b) /\ SubSeq(b, 1, Len(a)) = a

\* ZipFile.extractall(path): members are written under path, over what is there
ExtractAll(zip, dir) ==
    File({e \in dir.entries : \A z \in zip.entries : z.path # e.path} \cup zip.entries)

\* tar.add(name, arcname): the file, or every file under the directory, name
\* of the extracted tree, stored under arcname
TarAdd(tar, dir, name, arcname) ==
    File(tar.entries \cup
         { Entry(arcname \o SubSeq(ModelDir \o e.path, Len(name) + 1, Len(ModelDir \o e.path)),
                 e.data) :
             e \in {x \in dir.entries : IsPrefix(name, ModelDir \o x.path)} })

\* the body of the with tarfile.open(..., "w:gz") block
TarOf(dir) ==
    TarAdd(TarAdd(File({}), dir, ModelDir \o <<"bundle.json">>, <<"bundle.json">>),
           dir, ModelDir \o <<"root">>, <<"root">>)

(* -------------------------------- cells ------------------------------- *)

\* the code cells that act, in document order
CellOrder ==
    << "read", "define", "fit", "transform", "evaluate", "serialize", "repackage",
       "upload", "cleanup", "schema", "deploy", "predict_csv", "predict_json",
       "predict_schema", "delete" >>

CellIndex(c) == CHOOSE i \in 1..Len(CellOrder) : CellOrder[i] = c

\* NextCell with the prediction cells left out
NextCellSkipsPredict(c) ==
    IF c = "deploy" THEN "delete"
    ELSE IF CellIndex(c) = Len(CellOrder) THEN "done" ELSE CellOrder[CellIndex(c) + 1]

\* NextCell with the last cell left out
NextCellSkipsDelete(c) ==
    IF CellIndex(c) >= Len(CellOrder) - 1 THEN "done" ELSE CellOrder[CellIndex(c) + 1]

\* the cell that follows c in the document
NextCell(c) ==
    IF CellIndex(c) = Len(CellOrder) THEN "done" ELSE CellOrder[CellIndex(c) + 1]

Rows == 1..NumRows

VARIABLES
    pc,             \* the cell to run next, "done" or "failed"
    active,         \* a call of the cell at pc has begun and has not returned
    run,            \* number of this run of the notebook
    trace,          \* cells begun in this run, in order
    error,          \* the exception that ended the run, "none" otherwise
    nb,             \* the kernel's variables
    uses,           \* datasets handed to the Spark and MLeap calls, in order
    jarsInstalled,  \* the MLeap JARs are in the cluster's classpath
    zip,            \* /tmp/model.zip
    dir,            \* /tmp/model
    tar,            \* /tmp/model.tar.gz
    s3,             \* objects of the bucket
    models,         \* SageMaker models
    endpoints,      \* SageMaker endpoints
    clock,          \* gmtime(), to the second
    requests,       \* prediction requests of this run, in order
    deployed,       \* endpoint names given to deploy in this run
    deleted         \* endpoint names given to delete_endpoint in this run

vars ==
    << pc, active, run, trace, error, nb, uses, jarsInstalled, zip, dir, tar, s3,
       models, endpoints, clock, requests, deployed, deleted >>

host == << zip, dir, tar >>

cloud == << s3, models, endpoints >>

NoModel == [uid |-> 0, fitOn |-> {}]

NoFrame == [rows |-> {}, by |-> 0]

NbInit ==
    [ schema |-> <<>>, pipeline |-> <<>>,
      total_df |-> {}, train_df |-> {}, validation_df |-> {}, uid |-> 0,
      model |-> NoModel, transformed_train_df |-> NoFrame,
      transformed_validation_df |-> NoFrame, file_name |-> <<>>,
      schema_json |-> <<>>, timestamp_prefix |-> 0, sparkml_data |-> <<>>,
      model_name |-> <<>>, endpoint_name |-> <<>> ]

Init ==
    /\ pc = "read"
    /\ active = FALSE
    /\ run = 1
    /\ trace = <<>>
    /\ error = "none"
    /\ nb = NbInit
    /\ uses = <<>>
    /\ jarsInstalled \in BOOLEAN
    /\ zip = NoFile
    /\ dir = NoFile
    /\ tar = NoFile
    /\ s3 = {}
    /\ models = {}
    /\ endpoints = {}
    /\ clock = 1
    /\ requests = <<>>
    /\ deployed = <<>>
    /\ deleted = <<>>

At(c) == pc = c /\ ~active

\* the cell at pc returns and the next one is up
Returns ==
    /\ pc' = NextCell(pc)
    /\ trace' = Append(trace, pc)
    /\ active' = FALSE
    /\ error' = "none"

\* the exception caught and another one raised in its place
RaisesTranslated(e) ==
    /\ pc' = "failed"
    /\ trace' = IF active THEN trace ELSE Append(trace, pc)
    /\ active' = FALSE
    /\ error' = "NotebookError"

\* a call of the cell at pc raises: the run ends there with that exception
Raises(e) ==
    /\ pc' = "failed"
    /\ trace' = IF active THEN trace ELSE Append(trace, pc)
    /\ active' = FALSE
    /\ error' = e

Use(op, name, rows) == [op |-> op, df |-> name, rows |-> rows]


(* ----------------------- cells of the Spark kernel -------------------- *)

\* total_df = spark.read.csv(...); (train_df, validation_df) = total_df.randomSplit(...)
Read ==
    /\ At("read")
    /\ \E t \in SUBSET Rows :
          nb' = [nb EXCEPT !.schema = DatasetSchema,
                           !.total_df = Rows, !.train_df = t, !.validation_df = Rows \ t]
    /\ Returns
    /\ UNCHANGED << run, uses, jarsInstalled, host, cloud, clock, requests, deployed, deleted >>

\* sex_indexer, sex_encoder, assembler: new stages, with new uids
Define ==
    /\ At("define")
    /\ nb' = [nb EXCEPT !.uid = run]
    /\ Returns
    /\ UNCHANGED << run, uses, jarsInstalled, host, cloud, clock, requests, deployed, deleted >>

\* the whole dataset handed to pipeline.fit
FitArgTotal == "total_df"

\* the variable handed to pipeline.fit
FitArg == "train_df"

\* pipeline = Pipeline(stages=[...]); model = pipeline.fit(train_df), which
\* raises when a stage does not fit the frame it gets
Fit ==
    /\ At("fit")
    /\ uses' = Append(uses, Use("fit", FitArg, nb[FitArg]))
    /\ IF PipelineFits(PipelineStages, FieldNames(nb.schema))
       THEN /\ nb' = [nb EXCEPT !.pipeline = PipelineStages,
                                !.model = [uid |-> nb.uid, fitOn |-> nb[FitArg]]]
            /\ Returns
       ELSE /\ nb' = [nb EXCEPT !.pipeline = PipelineStages]
            /\ Raises("IllegalArgumentException")
    /\ UNCHANGED << run, jarsInstalled, host, cloud, clock, requests, deployed, deleted >>

\* transformed_train_df = model.transform(train_df), and the same of validation_df
Transform ==
    /\ At("transform")
    /\ nb' = [nb EXCEPT
                !.transformed_train_df = [rows |-> nb.train_df, by |-> nb.model.uid],
                !.transformed_validation_df = [rows |-> nb.validation_df, by |-> nb.model.uid]]
    /\ uses' = uses \o << Use("transform", "train_df", nb.train_df),
                          Use("transform", "validation_df", nb.validation_df) >>
    /\ Returns
    /\ UNCHANGED << run, jarsInstalled, host, cloud, clock, requests, deployed, deleted >>

\* train_rmse and validation_rmse = evaluator.evaluate(...)
Evaluate ==
    /\ At("evaluate")
    /\ uses' = uses \o
         << Use("evaluate", "transformed_train_df", nb.transformed_train_df.rows),
            Use("evaluate", "transformed_validation_df", nb.transformed_validation_df.rows) >>
    /\ Returns
    /\ UNCHANGED << run, nb, jarsInstalled, host, cloud, clock, requests, deployed, deleted >>

\* a Spark job of the cell at pc fails
SparkFail ==
    /\ pc \in {"read", "fit", "transform", "evaluate"}
    /\ ~active
    /\ Raises("Py4JJavaError")
    /\ UNCHANGED << run, nb, uses, jarsInstalled, host, cloud, clock, requests, deployed, deleted >>

\* serializeToBundle writing over a bundle that is there
SerializeOverwrites(jars, file) == IF ~jars THEN "JavaPackageNotCallable" ELSE "ok"

\* how model.serializeToBundle("jar:file:/tmp/model.zip", ...) ends
SerializeOutcome(jars, file) ==
    IF ~jars THEN "JavaPackageNotCallable"
    ELSE IF file.exists THEN "FileAlreadyExists"
    ELSE "ok"

Serialize ==
    /\ At("serialize")
    /\ SerializeOutcome(jarsInstalled, zip) = "ok"
    /\ zip' = File(BundleOf(nb.model))
    /\ uses' = Append(uses, Use("serializeToBundle", "transformed_validation_df",
                                nb.transformed_validation_df.rows))
    /\ Returns
    /\ UNCHANGED << run, nb, jarsInstalled, dir, tar, cloud, clock, requests, deployed, deleted >>

SerializeFail ==
    /\ At("serialize")
    /\ SerializeOutcome(jarsInstalled, zip) # "ok"
    /\ Raises(SerializeOutcome(jarsInstalled, zip))
    /\ UNCHANGED << run, nb, uses, jarsInstalled, host, cloud, clock, requests, deployed, deleted >>

\* zf.extractall("/tmp/model"), then the tar.gz of bundle.json and root
Repackage ==
    /\ At("repackage")
    /\ zip.exists
    /\ dir' = ExtractAll(zip, dir)
    /\ tar' = TarOf(ExtractAll(zip, dir))
    /\ Returns
    /\ UNCHANGED << run, nb, uses, jarsInstalled, zip, cloud, clock, requests, deployed, deleted >>

\* the cell raises in extractall, or in tar.add of root, after the with block
\* has closed the archive with what was added
RepackageFail ==
    /\ At("repackage")
    /\ \/ UNCHANGED << dir, tar >>
       \/ /\ zip.exists
          /\ dir' = ExtractAll(zip, dir)
          /\ tar' = TarAdd(File({}), ExtractAll(zip, dir),
                           ModelDir \o <<"bundle.json">>, <<"bundle.json">>)
    /\ Raises("IOError")
    /\ UNCHANGED << run, nb, uses, jarsInstalled, zip, cloud, clock, requests, deployed, deleted >>

\* put_object: the object of that bucket and key is replaced
PutObject(objs, bucket, key, body) ==
    {o \in objs : ~(o.bucket = bucket /\ o.key = key)}
      \cup {[bucket |-> bucket, key |-> key, body |-> body]}

\* file_name = os.path.join(...); s3.Bucket(...).upload_file("/tmp/model.tar.gz", file_name)
Upload ==
    /\ At("upload")
    /\ tar.exists
    /\ nb' = [nb EXCEPT !.file_name = PathJoin(KeyPrefix, ArchiveName)]
    /\ s3' = PutObject(s3, OutputBucket, PathJoin(KeyPrefix, ArchiveName), tar.entries)
    /\ Returns
    /\ UNCHANGED << run, uses, jarsInstalled, host, models, endpoints, clock, requests,
                    deployed, deleted >>

UploadFail ==
    /\ At("upload")
    /\ nb' = [nb EXCEPT !.file_name = PathJoin(KeyPrefix, ArchiveName)]
    /\ Raises("S3UploadFailedError")
    /\ UNCHANGED << run, uses, jarsInstalled, host, cloud, clock, requests, deployed, deleted >>

\* the local artifacts after the first k statements of the cleanup cell:
\* os.remove(zip), os.remove(tar.gz), shutil.rmtree(/tmp/model)
Removed(k, files) ==
    << IF k >= 1 THEN NoFile ELSE files[1],
       IF k >= 3 THEN NoFile ELSE files[2],
       IF k >= 2 THEN NoFile ELSE files[3] >>

Cleanup ==
    /\ At("cleanup")
    /\ zip.exists /\ tar.exists /\ dir.exists
    /\ zip' = Removed(3, << zip, dir, tar >>)[1]
    /\ dir' = Removed(3, << zip, dir, tar >>)[2]
    /\ tar' = Removed(3, << zip, dir, tar >>)[3]
    /\ Returns
    /\ UNCHANGED << run, nb, uses, jarsInstalled, cloud, clock, requests, deployed, deleted >>

\* statement k + 1 of the cleanup cell raises
CleanupFail ==
    /\ At("cleanup")
    /\ \E k \in 0..2 :
          /\ zip' = Removed(k, << zip, dir, tar >>)[1]
          /\ dir' = Removed(k, << zip, dir, tar >>)[2]
          /\ tar' = Removed(k, << zip, dir, tar >>)[3]
    /\ Raises("OSError")
    /\ UNCHANGED << run, nb, uses, jarsInstalled, cloud, clock, requests, deployed, deleted >>


(* ---------------------- cells of the SageMaker kernel ----------------- *)

\* schema_json = json.dumps(schema)
SchemaCell ==
    /\ At("schema")
    /\ nb' = [nb EXCEPT !.schema_json = DumpsSchema(EnvSchema)]
    /\ Returns
    /\ UNCHANGED << run, uses, jarsInstalled, host, cloud, clock, requests, deployed, deleted >>

\* strftime("%Y-%m-%d-%H-%M-%S", gmtime())
Strftime(t) == ToString(t)

ModelName(ts) == <<"sparkml-abalone-", ts>>

EndpointName(ts) == <<"sparkml-abalone-ep-", ts>>

\* the kernel's variables once the statements before deploy have run
Named(ns, t) ==
    [ns EXCEPT !.timestamp_prefix = t,
               !.sparkml_data = S3Format(OutputBucket, KeyPrefix, ArchiveName),
               !.model_name = ModelName(Strftime(t)),
               !.endpoint_name = EndpointName(Strftime(t))]

HasEndpoint(eps, name) == \E e \in eps : e.name = name

EndpointOf(eps, name) == CHOOSE e \in eps : e.name = name

\* create_model: a model of that name that is there already is used
CreateModel(ms, name, data, env) ==
    IF \E m \in ms : m.name = name THEN ms
    ELSE ms \cup {[name |-> name, data |-> data, env |-> env]}

\* sparkml_model.deploy(...) begins: the model and the endpoint are created,
\* and the call waits for the endpoint
DeployStart ==
    /\ At("deploy")
    /\ \E t \in clock..MaxClock :
          /\ clock' = t
          /\ nb' = Named(nb, t)
          /\ ~HasEndpoint(endpoints, EndpointName(Strftime(t)))
          /\ models' = CreateModel(models, ModelName(Strftime(t)),
                                   S3Format(OutputBucket, KeyPrefix, ArchiveName),
                                   nb.schema_json)
          /\ endpoints' = endpoints \cup
                {[name |-> EndpointName(Strftime(t)), model |-> ModelName(Strftime(t)),
                  status |-> "Creating", bundle |-> {}]}
          /\ deployed' = Append(deployed, EndpointName(Strftime(t)))
    /\ active' = TRUE
    /\ trace' = Append(trace, pc)
    /\ UNCHANGED << pc, error, run, uses, jarsInstalled, host, s3, requests, deleted >>

\* deploy raises before anything is created, or at create_endpoint because
\* an endpoint of that name exists
DeployStartFail ==
    /\ At("deploy")
    /\ \E t \in clock..MaxClock :
          /\ clock' = t
          /\ nb' = Named(nb, t)
          /\ \/ UNCHANGED models
             \/ /\ HasEndpoint(endpoints, EndpointName(Strftime(t)))
                /\ models' = CreateModel(models, ModelName(Strftime(t)),
                                         S3Format(OutputBucket, KeyPrefix, ArchiveName),
                                         nb.schema_json)
    /\ Raises("ClientError")
    /\ UNCHANGED << run, uses, jarsInstalled, host, s3, endpoints, requests, deployed, deleted >>

ModelOf(ms, name) == CHOOSE m \in ms : m.name = name

HasObject(objs, at) == \E o \in objs : o.bucket = at.bucket /\ o.key = at.key

ObjectAt(objs, at) == CHOOSE o \in objs : o.bucket = at.bucket /\ o.key = at.key

\* SageMaker brings an endpoint up: the container loads the model data
EndpointInService ==
    /\ \E e \in endpoints :
          /\ e.status = "Creating"
          /\ HasObject(s3, ParseS3Uri(ModelOf(models, e.model).data))
          /\ endpoints' = (endpoints \ {e}) \cup
                {[e EXCEPT !.status = "InService",
                           !.bundle = ObjectAt(s3, ParseS3Uri(ModelOf(models, e.model).data)).body]}
    /\ UNCHANGED << pc, active, run, trace, error, nb, uses, jarsInstalled, host, s3,
                    models, clock, requests, deployed, deleted >>

\* SageMaker fails to bring an endpoint up
EndpointFailed ==
    /\ \E e \in endpoints :
          /\ e.status = "Creating"
          /\ endpoints' = (endpoints \ {e}) \cup {[e EXCEPT !.status = "Failed"]}
    /\ UNCHANGED << pc, active, run, trace, error, nb, uses, jarsInstalled, host, s3,
                    models, clock, requests, deployed, deleted >>

\* deploy called with wait=False
WaitedNot(status) == TRUE

\* deploy waits while the endpoint is being created
Waited(status) == status # "Creating"

\* deploy returns, or raises when the endpoint has failed
DeployReturn ==
    /\ pc = "deploy" /\ active
    /\ Waited(EndpointOf(endpoints, nb.endpoint_name).status)
    /\ IF EndpointOf(endpoints, nb.endpoint_name).status = "Failed"
       THEN Raises("UnexpectedStatusException")
       ELSE /\ pc' = NextCell(pc)
            /\ active' = FALSE
            /\ UNCHANGED << trace, error >>
    /\ UNCHANGED << run, nb, uses, jarsInstalled, host, cloud, clock, requests, deployed, deleted >>

StatusOf(eps, name) == IF HasEndpoint(eps, name) THEN EndpointOf(eps, name).status ELSE "Missing"

\* InvokeEndpoint: the container of an endpoint in service answers the request
Invoke(eps, ms, name, contentType, body) ==
    IF StatusOf(eps, name) = "InService"
    THEN Serve(ModelOf(ms, EndpointOf(eps, name).model).env, contentType, body)
    ELSE BadRequest

\* the endpoint a Predictor of the prediction cells is made for
PredictorEndpoint(ns) == ns.endpoint_name

\* what the serializer of the cell's Predictor puts on the wire
ContentTypeOf(cell) == IF cell = "predict_csv" THEN "text/csv" ELSE "application/json"

\* the request bodies the serializers of the three cells write
CsvBody == CsvSerialize(CsvPayload)

JsonBody == DumpsPayload(JsonPayload)

SchemaBody == DumpsPayload(SchemaPayload)

BodyOf(cell) ==
    CASE cell = "predict_csv" -> CsvBody
      [] cell = "predict_json" -> JsonBody
      [] cell = "predict_schema" -> SchemaBody

\* what predict finds: the endpoint's status, and the container's answer
Answer(cell) ==
    LET name == PredictorEndpoint(nb)
    IN  The({ [cell |-> cell, endpoint |-> name, status |-> StatusOf(endpoints, name),
               contentType |-> ContentTypeOf(cell), body |-> BodyOf(cell),
               ok |-> resp.ok, from |-> resp.from, schema |-> resp.schema,
               record |-> resp.record]
              : resp \in {Invoke(endpoints, models, name, ContentTypeOf(cell), BodyOf(cell))} })

\* Predictor(endpoint_name=endpoint_name, ...).predict(payload)
Predict(cell) ==
    /\ At(cell)
    /\ \E a \in {Answer(cell)} :
          /\ requests' = Append(requests, a)
          /\ IF a.ok THEN Returns ELSE Raises("ModelError")
    /\ UNCHANGED << run, nb, uses, jarsInstalled, host, cloud, clock, deployed, deleted >>

PredictCsv == Predict("predict_csv")

PredictJson == Predict("predict_json")

PredictSchema == Predict("predict_schema")

\* the request does not get through
PredictFail ==
    /\ pc \in {"predict_csv", "predict_json", "predict_schema"}
    /\ ~active
    /\ Raises("EndpointConnectionError")
    /\ UNCHANGED << run, nb, uses, jarsInstalled, host, cloud, clock, requests, deployed, deleted >>

\* delete_endpoint given the endpoint name of the first timestamp
DeleteArgFirst(ns) == EndpointName(Strftime(1))

\* the name given to session.delete_endpoint
DeleteArg(ns) == ns.endpoint_name

\* session.delete_endpoint(endpoint_name)
Delete ==
    /\ At("delete")
    /\ HasEndpoint(endpoints, DeleteArg(nb))
    /\ endpoints' = {e \in endpoints : e.name # DeleteArg(nb)}
    /\ deleted' = Append(deleted, DeleteArg(nb))
    /\ Returns
    /\ UNCHANGED << run, nb, uses, jarsInstalled, host, s3, models, clock, requests, deployed >>

DeleteFail ==
    /\ At("delete")
    /\ Raises("ClientError")
    /\ UNCHANGED << run, nb, uses, jarsInstalled, host, cloud, clock, requests, deployed, deleted >>

\* the notebook is run again, from the top, with a fresh kernel
Restart ==
    /\ pc \in {"done", "failed"}
    /\ run < MaxRuns
    /\ run' = run + 1
    /\ pc' = "read"
    /\ active' = FALSE
    /\ trace' = <<>>
    /\ error' = "none"
    /\ nb' = NbInit
    /\ uses' = <<>>
    /\ requests' = <<>>
    /\ deployed' = <<>>
    /\ deleted' = <<>>
    /\ jarsInstalled' \in {jarsInstalled, TRUE}
    /\ UNCHANGED << host, cloud, clock >>

RunStep ==
    \/ Read \/ Define \/ Fit \/ Transform \/ Evaluate \/ SparkFail
    \/ Serialize \/ SerializeFail
    \/ Repackage \/ RepackageFail
    \/ Upload \/ UploadFail
    \/ Cleanup \/ CleanupFail
    \/ SchemaCell
    \/ DeployStart \/ DeployStartFail \/ EndpointInService \/ EndpointFailed \/ DeployReturn
    \/ PredictCsv \/ PredictJson \/ PredictSchema \/ PredictFail
    \/ Delete \/ DeleteFail

Next == RunStep \/ Restart

Spec == Init /\ [][Next]_vars

\* A cell that can run does run, and SageMaker settles the creation of an
\* endpoint; whether the notebook is run again is up to the user.
FairSpec == Spec /\ WF_vars(RunStep)

(* -------------------------------- claims ------------------------------ *)

\* the step of the notebook a cell belongs to, "" for a cell that is none
StepOf(c) ==
    CASE c = "read" -> "read data"
      [] c = "define" -> "define transformers"
      [] c = "fit" -> "fit"
      [] c = "serialize" -> "serialize the bundle"
      [] c = "repackage" -> "repackage to tar.gz"
      [] c = "upload" -> "upload"
      [] c = "deploy" -> "create model and deploy endpoint"
      [] c \in {"predict_csv", "predict_json", "predict_schema"} -> "invoke the endpoint"
      [] c = "delete" -> "delete the endpoint"
      [] OTHER -> ""

StepOrder ==
    << "read data", "define transformers", "fit", "serialize the bundle",
       "repackage to tar.gz", "upload", "create model and deploy endpoint",
       "invoke the endpoint", "delete the endpoint" >>

\* the steps of a sequence of cells, each step once, in the order begun
RECURSIVE StepsOf(_)
StepsOf(cells) ==
    IF cells = <<>> THEN <<>>
    ELSE LET before == StepsOf(SubSeq(cells, 1, Len(cells) - 1))
             st == StepOf(cells[Len(cells)])
         IN  IF st = "" \/ (before # <<>> /\ before[Len(before)] = st) THEN before
             ELSE Append(before, st)

Running == pc \notin {"done", "failed"}

C2_RequestsToLiveEndpoint ==
    /\ [](/\ Len(deployed) <= 1
          /\ \A i \in 1..Len(requests) :
                /\ deployed # <<>>
                /\ requests[i].endpoint = deployed[1]
                /\ requests[i].status = "InService"
          /\ \A i \in 1..Len(deleted) : deployed # <<>> /\ deleted[i] = deployed[1])
    /\ [][Len(requests') > Len(requests) =>
             /\ ~active /\ deployed # <<>> /\ deleted = <<>>
             /\ StatusOf(endpoints, deployed[1]) = "InService"]_vars

C2_Witness == Len(requests) = 3 /\ deleted # <<>> /\ pc = "done"

\* an endpoint this run has deployed is in service
RunEndpointUp == deployed # <<>> /\ StatusOf(endpoints, deployed[1]) = "InService"

Returned(c) ==
    /\ \E i \in 1..Len(trace) : trace[i] = c
    /\ ~(pc = c /\ active)
    /\ ~(pc = "failed" /\ trace[Len(trace)] = c)

\* C4: once the repackaging cell has returned, /tmp/model.tar.gz holds
\* exactly the entries of the zip bundle serializeToBundle wrote in this run,
\* under the same names (bundle.json and what is under root) and with the
\* same contents.
C4_ArchiveIsBundle ==
    (Returned("repackage") /\ tar.exists) =>
        /\ tar.entries = BundleOf(nb.model)
        /\ \A e \in tar.entries : e.path[1] \in {"bundle.json", "root"}

\* C5: the URI given to SparkMLModel as model_data names the bucket and the
\* key the archive was uploaded under, and the object of every model's URI is
\* in the bucket from the moment the model is created, so also while its
\* endpoint is being deployed.
C5_ModelDataIsUploadedObject ==
    /\ (nb.file_name # <<>> /\ nb.sparkml_data # <<>>) =>
          ParseS3Uri(nb.sparkml_data) = [bucket |-> OutputBucket, key |-> nb.file_name]
    /\ \A m \in models : HasObject(s3, ParseS3Uri(m.data))
    /\ deployed # <<>> => ModelOf(models, nb.model_name).data = nb.sparkml_data
    /\ \A e \in endpoints : HasObject(s3, ParseS3Uri(ModelOf(models, e.model).data))

C5_Witness ==
    /\ pc = "predict_csv"
    /\ nb.file_name = <<"emr", "/", "abalone", "/", "mleap", "/", "model.tar.gz">>
    /\ StatusOf(endpoints, nb.endpoint_name) = "InService"

\* the exceptions the calls of a cell raise
LibraryErrors(c) ==
    CASE c \in {"read", "fit", "transform", "evaluate"} -> {"Py4JJavaError"}
      [] c = "serialize" -> {"JavaPackageNotCallable", "FileAlreadyExists"}
      [] c = "repackage" -> {"IOError"}
      [] c = "upload" -> {"S3UploadFailedError"}
      [] c = "cleanup" -> {"OSError"}
      [] c = "deploy" -> {"ClientError", "UnexpectedStatusException"}
      [] c \in {"predict_csv", "predict_json", "predict_schema"} ->
            {"EndpointConnectionError", "ModelError"}
      [] c = "delete" -> {"ClientError"}
      [] OTHER -> {}

\* C6: a step that fails ends the run with the exception of the failing call;
\* the failing step is not begun again, nothing the earlier steps left (local
\* files the cell does not write, the uploaded object, the models, the
\* endpoints) changes in the failing step, and nothing changes afterwards
\* until the notebook is run again.
C6_FailureLeftAsIs ==
    [][ /\ (pc # "failed" /\ pc' = "failed") =>
              /\ error' \in LibraryErrors(pc)
              /\ run' = run
              /\ trace' \in {trace, Append(trace, pc)}
              /\ s3' = s3 /\ endpoints' = endpoints /\ models \subseteq models'
              /\ pc # "deploy" => models' = models
              /\ pc # "cleanup" => zip' = zip
              /\ pc \notin {"repackage", "cleanup"} => dir' = dir /\ tar' = tar
        /\ pc = "failed" =>
              /\ host' = host /\ cloud' = cloud
              /\ pc' = "failed" \/ (pc' = "read" /\ run' = run + 1) ]_vars

C6_Witness ==
    /\ pc = "failed" /\ error = "EndpointConnectionError"
    /\ RunEndpointUp /\ s3 # {} /\ models # {} /\ zip = NoFile

DataCount(r) ==
    IF r.contentType = "text/csv" THEN Len(Split(r.body, ","))
    ELSE Len(r.body) - 2 - (IndexOf(r.body, S(<<"data">>), 2) + 1)

\* C9: the prediction requests of a run bind the same value to every column
\* name, whichever payload and schema they come with; each carries as many
\* data values as its schema has input columns, and the value of a column has
\* the column's type.
C9_SameRecord ==
    /\ \A i \in 1..Len(requests) : \A j \in 1..Len(requests) :
          requests[i].record = requests[j].record
    /\ \A i \in 1..Len(requests) :
          LET r == requests[i]
          IN  /\ r.ok
              /\ DataCount(r) = Len(r.schema.input)
              /\ Cardinality(r.record) = Len(EnvSchema.input)
              /\ \A k \in 1..Len(r.schema.input) :
                    \E v \in r.record :
                       v.name = r.schema.input[k].name /\ v.type = r.schema.input[k].type
              /\ {v.name : v \in r.record} =
                    {EnvSchema.input[k].name : k \in 1..Len(EnvSchema.input)}

C9_Witness ==
    /\ Len(requests) = 3
    /\ requests[1].contentType = "text/csv"
    /\ requests[3].schema = RequestSchema
    /\ Value("shell_weight", "double", <<>>, 2550) \in requests[1].record
    /\ Value("sex", "string", <<"F">>, 0) \in requests[3].record

\* C10: pipeline.fit gets train_df, the rows the model is fitted on are those
\* of train_df and none of validation_df; validation_df and what is derived
\* from it are handed only to transform, evaluate and serializeToBundle, after
\* fit; both parts come from the one split of total_df.
C10_FitOnTrainOnly ==
    /\ \A i \in 1..Len(uses) :
          /\ uses[i].op = "fit" => uses[i].df = "train_df" /\ uses[i].rows = nb.train_df
          /\ uses[i].df \in {"validation_df", "transformed_validation_df"} =>
                /\ uses[i].op \in {"transform", "evaluate", "serializeToBundle"}
                /\ uses[i].rows = nb.validation_df
                /\ \E j \in 1..(i - 1) : uses[j].op = "fit"
    /\ nb.model # NoModel =>
          /\ nb.model.fitOn = nb.train_df
          /\ nb.model.fitOn \cap nb.validation_df = {}
    /\ nb.train_df \cup nb.validation_df = nb.total_df
    /\ Cardinality({i \in 1..Len(uses) : uses[i].op = "fit"}) <= 1

C10_Witness ==
    /\ pc = "repackage"
    /\ nb.train_df # {} /\ nb.validation_df # {}
    /\ uses[Len(uses)] = Use("serializeToBundle", "transformed_validation_df", nb.validation_df)

\* C8: serializeToBundle to /tmp/model.zip fails with FileAlreadyExists when
\* the file is there, leaving the host as it is, and does not fail with it when
\* the file is not; once the cleanup cell has returned none of the three local
\* artifacts exists; a local artifact is removed only by the cleanup cell,
\* after the upload has returned.
C8_FileAlreadyExists ==
    /\ [][(pc = "serialize" /\ pc' # pc) =>
             /\ zip.exists => pc' = "failed" /\ error' = "FileAlreadyExists" /\ host' = host
             /\ ~zip.exists => error' # "FileAlreadyExists"]_vars
    /\ [](Returned("cleanup") => ~zip.exists /\ ~tar.exists /\ ~dir.exists)
    /\ [][((zip.exists /\ ~zip'.exists) \/ (tar.exists /\ ~tar'.exists)
             \/ (dir.exists /\ ~dir'.exists)) =>
             pc = "cleanup" /\ Returned("upload")]_vars

\* a second run serializes again after the first has uploaded and cleaned up
C8_Witness ==
    /\ run = 2 /\ pc = "repackage" /\ zip.exists
    /\ s3 # {} /\ ~dir.exists /\ ~tar.exists

\* C11: in the pipeline that is fitted, every column a stage reads (its input
\* columns and its label column) is a column of the dataset schema or is
\* added by an earlier stage, no column is added by two stages or is a
\* column of the dataset, rings is not among the columns the assembler
\* puts into features, and fit never fails on a column.
C11_StagesWellOrdered ==
    /\ error # "IllegalArgumentException"
    /\ nb.pipeline # <<>> =>
          LET st == nb.pipeline
              ds == Range(FieldNames(nb.schema))
          IN  /\ [k \in 1..Len(st) |-> st[k].kind] =
                    << "StringIndexer", "OneHotEncoderEstimator", "VectorAssembler",
                       "RandomForestRegressor" >>
              /\ \A k \in 1..Len(st) :
                    \A c \in Range(st[k].inputCols) \cup Range(st[k].labelCol) :
                       c \in ds \/ \E j \in 1..(k - 1) : c \in Range(st[j].outputCols)
              /\ \A k \in 1..Len(st) :
                    /\ Range(st[k].outputCols) \cap ds = {}
                    /\ \A j \in 1..Len(st) :
                          j # k => Range(st[j].outputCols) \cap Range(st[k].outputCols) = {}
              /\ \A k \in 1..Len(st) :
                    st[k].kind = "VectorAssembler" =>
                       /\ "rings" \notin Range(st[k].inputCols)
                       /\ \A j \in 1..Len(st) :
                             Range(st[j].labelCol) \cap Range(st[k].inputCols) = {}

\* the pipeline has been fitted on the columns of the dataset
C11_Witness ==
    /\ pc = "transform"
    /\ nb.pipeline = PipelineStages
    /\ nb.model # NoModel
    /\ "rings" \in Range(FieldNames(nb.schema))

\* the type name the serving schema uses for a Spark data type
JsonTypeOf(t) == IF t = "StringType" THEN "string" ELSE IF t = "DoubleType" THEN "double" ELSE "other"

\* the dataset columns the stages of a pipeline read as input, in the
\* order of the dataset schema, with the serving schema's type names
ServingInput(fields, stages) ==
    LET IsRead(f) == \E k \in 1..Len(stages) : f.name \in Range(stages[k].inputCols)
        read == SelectSeq(fields, IsRead)
    IN  [i \in 1..Len(read) |-> Col(read[i].name, JsonTypeOf(read[i].dataType))]

\* C12: the schema written to schema_json, and given to the run's model as
\* SAGEMAKER_SPARKML_SCHEMA, lists as input the dataset columns the fitted
\* pipeline's stages read, which are all columns but the label rings, in the
\* order of the training schema and with the matching types; its output is
\* the double column prediction, which the last stage of the pipeline adds.
C12_ServingSchemaMatchesPipeline ==
    /\ nb.schema_json # <<>> =>
          \E sch \in {LoadsSchema(nb.schema_json, 1)} :
             /\ nb.pipeline # <<>> /\ nb.schema # <<>>
             /\ sch.input = ServingInput(nb.schema, nb.pipeline)
             /\ {sch.input[i].name : i \in 1..Len(sch.input)} =
                   Range(FieldNames(nb.schema)) \ {"rings"}
             /\ \A k \in 1..Len(nb.pipeline) :
                   Range(nb.pipeline[k].labelCol) \cap
                      {sch.input[i].name : i \in 1..Len(sch.input)} = {}
             /\ sch.output.type = "double"
             /\ nb.pipeline[Len(nb.pipeline)].outputCols = <<sch.output.name>>
             /\ sch.output.name = "prediction"
    /\ deployed # <<>> => ModelOf(models, nb.model_name).env = nb.schema_json

\* the schema has been given to a deployed model
C12_Witness ==
    /\ pc = "predict_csv"
    /\ StatusOf(endpoints, nb.endpoint_name) = "InService"
    /\ Len(LoadsSchema(ModelOf(models, nb.model_name).env, 1).input) = 8
    /\ Len(nb.schema) = 9

\* C13: the archive a run has uploaded holds only files of the bundle that
\* run serialized: every entry of the object under the run's key was written
\* by this run's serializeToBundle, none by an earlier run.
C13_UploadedIsOwnBundle ==
    Returned("upload") =>
        \E o \in {ObjectAt(s3, [bucket |-> OutputBucket, key |-> nb.file_name])} :
            /\ \A e \in o.body : e.data = nb.model.uid
            /\ o.body = BundleOf(nb.model)

\* the run has taken its timestamp and built its names
HasNames == nb.timestamp_prefix # 0

\* C14: a run's model name and endpoint name are sparkml-abalone-<ts> and
\* sparkml-abalone-ep-<ts> of the one timestamp the run took; deploy, every
\* prediction request and delete_endpoint are given that endpoint name;
\* different timestamps give different names; and no step of a run creates,
\* changes or deletes an endpoint of another name than the run's own.
C14_NamesOfOneTimestamp ==
    /\ [](/\ HasNames =>
                /\ nb.model_name = <<"sparkml-abalone-", Strftime(nb.timestamp_prefix)>>
                /\ nb.endpoint_name = <<"sparkml-abalone-ep-", Strftime(nb.timestamp_prefix)>>
          /\ ~HasNames => deployed = <<>> /\ requests = <<>> /\ deleted = <<>>
          /\ Len(deployed) <= 1 /\ Len(deleted) <= 1
          /\ \A i \in 1..Len(deployed) : deployed[i] = nb.endpoint_name
          /\ \A i \in 1..Len(requests) : requests[i].endpoint = nb.endpoint_name
          /\ \A i \in 1..Len(deleted) : deleted[i] = nb.endpoint_name
          /\ \A e \in endpoints :
                /\ e.name = nb.endpoint_name => e.model = nb.model_name
                /\ (HasNames /\ e.name[2] # Strftime(nb.timestamp_prefix)) =>
                      e.name # nb.endpoint_name /\ e.model # nb.model_name
          /\ \A t1 \in 1..MaxClock : \A t2 \in 1..MaxClock :
                t1 # t2 => /\ ModelName(Strftime(t1)) # ModelName(Strftime(t2))
                           /\ EndpointName(Strftime(t1)) # EndpointName(Strftime(t2)))
    /\ [][/\ \A e \in endpoints : e.name # nb'.endpoint_name => e \in endpoints'
          /\ \A e \in endpoints' \ endpoints :
                e.name = nb'.endpoint_name /\ e.model = nb'.model_name]_vars

\* a second run, of a later timestamp, has deployed, invoked and deleted its
\* own endpoint while the endpoint the first run left is in service
C14_Witness ==
    /\ run = 2 /\ pc = "done"
    /\ Len(requests) = 3
    /\ deleted = <<nb.endpoint_name>>
    /\ Cardinality(models) = 2
    /\ \E e \in endpoints : e.name # nb.endpoint_name /\ e.status = "InService"

====
